---- MODULE Spec2Model ----
(***************************************************************************)
(* Model of the two utility scripts of the Humphrey repository:            *)
(*   tools/bench.py        the ApacheBench driver and pgfplots renderer    *)
(*   tools/pkg_tex_src.py  the source packager for the TeX write-up        *)
(*                                                                         *)
(* Four specifications share the variables below:                          *)
(*   SpecBench  a run of main()/core() of bench.py                         *)
(*   SpecParse  parse_bench_results applied to bounded reports             *)
(*   SpecTex    generate_tex applied to bounded series mappings            *)
(*   SpecPkg    a run of pkg_tex_src.py over a bounded source tree         *)
(***************************************************************************)
EXTENDS Integers, Sequences, FiniteSets, TLC

VARIABLES
    pc,            \* position of the running script
    error,         \* the uncaught exception that ended the script, or NoError
    \* ---- bench.py
    server,        \* index into results_rps.keys() of the outer loop of core()
    i,             \* the inner loop variable of core(), 0-based as in range()
    outfile,       \* content of out.txt in the working directory, or Absent
    results,       \* the report text held by core() / given to parse_bench_results
    results_rps,   \* core(): series of requests per second (thousands)
    results_tpr,   \* core(): series of time per request
    calls,         \* the commands handed to os.system so far, with their output
    stdout,        \* what main() printed
    field,         \* parse_bench_results: the label asked for
    tex_in,        \* generate_tex: the axis configuration and series mapping
    ret,           \* the value returned (or exception raised) by the function applied
    \* ---- pkg_tex_src.py
    sep,           \* os.sep of the platform
    tree,          \* the files below the working directory
    missing,       \* the configured directories that do not exist
    unreadable,    \* files that cannot be opened for reading
    removable,     \* whether shutil.rmtree can remove an existing pkg/
    pkg,           \* pkg/: whether it exists, and the <<file name, content>> in it
    output,        \* the stream pkg/src.tex
    tests_output,  \* the stream pkg/tests.tex
    k,             \* index into DIRECTORIES of the outer loop
    queue,         \* what os.walk has still to yield for directory k
    copied         \* the source files shutil.copyfile has copied, in order

benchVars == <<server, i, outfile, results, results_rps, results_tpr, calls, stdout>>
funVars   == <<field, tex_in, ret>>
pkgVars   == <<sep, tree, missing, unreadable, removable, pkg, output, tests_output,
               k, queue, copied>>
vars      == <<pc, error, benchVars, funVars, pkgVars>>

Absent  == "absent"
NoError == "none"
Idle    == "idle"

(***************************************************************************)
(* bench.py: constants                                                     *)
(***************************************************************************)
CORES_LIMIT == 8
REQUESTS == 100000
COLOURS == <<"green", "orange", "red">>

\* The keys of results_rps / results_tpr in insertion order.
SERVERS == <<"Humphrey", "Nginx", "Apache">>

PORTS == [s \in {"Humphrey", "Nginx", "Apache"} |->
            CASE s = "Humphrey" -> 80
              [] s = "Nginx"    -> 8000
              [] s = "Apache"   -> 8080]

RPS == "Requests per second"
TPR == "Time per request"
Labels == {RPS, TPR}

(***************************************************************************)
(* Report text.  A report is the list of its lines (what split("\n")       *)
(* yields: never the empty list).  A line is described by the labels that  *)
(* occur in it as substrings and by the whitespace-delimited tokens of     *)
(* line[24:].  A token is a decimal literal whole.milli or another word.   *)
(***************************************************************************)
Num(w, m)  == [num |-> TRUE, whole |-> w, milli |-> m]
Word(t)    == [num |-> FALSE, text |-> t]
Line(l, t) == [has |-> l, toks |-> t]
EmptyLine  == Line({}, <<>>)

\* float(): the value of a decimal literal in millionths; ValueError otherwise.
Float(tok) ==
    IF tok.num THEN [ok |-> TRUE, val |-> tok.whole * 1000000 + tok.milli * 1000]
    ELSE [ok |-> FALSE, err |-> "ValueError"]

\* x / 1000 on values in millionths (exact for literals of three decimals).
Div1000(x) == x \div 1000

\* Variant of ScanLines: takes the last line containing the label.
ScanLastLine(lines, fld, n) ==
    LET hits == {j \in 1..Len(lines) : fld \in lines[j].has}
        last == CHOOSE j \in hits : \A h \in hits : h <= j
    IN IF hits = {} THEN [ok |-> FALSE, err |-> "Exception"]
       ELSE IF lines[last].toks = <<>> THEN [ok |-> FALSE, err |-> "IndexError"]
       ELSE Float(lines[last].toks[1])

\* parse_bench_results, lines 90-94: the first line containing the label decides.
RECURSIVE ScanLines(_, _, _)
ScanLines(lines, fld, n) ==
    IF n > Len(lines) THEN [ok |-> FALSE, err |-> "Exception"]
    ELSE IF fld \in lines[n].has
         THEN IF lines[n].toks = <<>> THEN [ok |-> FALSE, err |-> "IndexError"]
              ELSE Float(lines[n].toks[1])
         ELSE ScanLines(lines, fld, n + 1)

parse_bench_results(res, fld) == ScanLines(res, fld, 1)

HasLabel(res, fld) == \E n \in 1..Len(res) : fld \in res[n].has

FirstLabelLine(res, fld) ==
    CHOOSE n \in 1..Len(res) :
        fld \in res[n].has /\ \A m \in 1..(n - 1) : fld \notin res[m].has

\* The label's first line carries a decimal literal at offset 24.
WellFormedFor(res, fld) ==
    /\ HasLabel(res, fld)
    /\ res[FirstLabelLine(res, fld)].toks # <<>>
    /\ res[FirstLabelLine(res, fld)].toks[1].num

(***************************************************************************)
(* The external load generator.  What ab measures is not the script's      *)
(* business; each measurement is tagged with the trial it belongs to so    *)
(* that the origin of a stored sample is visible.  The shapes are those    *)
(* a run of ab (or of the shell failing to start it) can leave in out.txt. *)
(***************************************************************************)
Measure(port, c, fld) ==
    IF fld = RPS THEN Num((port \div 10) + c, 500) ELSE Num((port \div 10) + c, 250)

RpsLine(port, c) == Line({RPS}, <<Measure(port, c, RPS), Word("[#/sec]"), Word("(mean)")>>)
TprLine(port, c) == Line({TPR}, <<Measure(port, c, TPR), Word("[ms]"), Word("(mean)")>>)
TprLine2(port, c) == Line({TPR}, <<Num(1, 0), Word("[ms]"), Word("(mean,")>>)
Banner == Line({}, <<Word("Version"), Word("2.3")>>)

AbReports(port, c) ==
    { <<Banner, RpsLine(port, c), TprLine(port, c), TprLine2(port, c), EmptyLine>>,
      <<EmptyLine>>,
      <<Banner, TprLine(port, c), TprLine2(port, c), EmptyLine>>,
      <<Banner, RpsLine(port, c), EmptyLine>>,
      <<Banner, Line({RPS}, <<>>), EmptyLine>>,
      <<Banner, Line({RPS}, <<Word("n/a")>>), TprLine(port, c), EmptyLine>>,
      <<Banner, RpsLine(port, c), Line({TPR}, <<>>), EmptyLine>>,
      <<Banner, RpsLine(port, c), Line({TPR}, <<Word("n/a")>>), EmptyLine>> }

StaleReport == <<Line({}, <<Word("stale")>>)>>

\* Variant of Cmd: the loop variable is passed as it is, without the + 1.
CmdZeroBased(n, c, ka, port, php) ==
    [n |-> n, c |-> c - 1, redirect |-> "out.txt", keepalive |-> ka,
     url |-> [host |-> "localhost", port |-> port,
              path |-> IF php THEN "/test.php" ELSE "/"]]

\* bench_cmd, lines 74-77: the command line built from the arguments.
Cmd(n, c, ka, port, php) ==
    [n |-> n, c |-> c, redirect |-> "out.txt", keepalive |-> ka,
     url |-> [host |-> "localhost", port |-> port,
              path |-> IF php THEN "/test.php" ELSE "/"]]

(***************************************************************************)
(* bench.py: main() and core()                                             *)
(***************************************************************************)
Name == SERVERS[server]

\* bench_cmd, lines 74-80: os.system runs the command; the shell's redirection
\* leaves the report in out.txt, replacing whatever was there.
BenchCmdSystem ==
    /\ pc = "core_loop"
    /\ server <= Len(SERVERS)
    /\ \E rep \in AbReports(PORTS[Name], i + 1) :
          /\ outfile' = rep
          /\ calls' = Append(calls, [cmd |-> Cmd(REQUESTS, i + 1, TRUE, PORTS[Name], FALSE),
                                     out |-> rep])
    /\ pc' = "bench_read"
    /\ UNCHANGED <<error, server, i, results, results_rps, results_tpr, stdout,
                   funVars, pkgVars>>

\* Variant of BenchCmdRead: the scratch file is left behind.
BenchCmdReadKeep ==
    /\ pc = "bench_read"
    /\ results' = outfile
    /\ pc' = "parse_rps"
    /\ UNCHANGED <<error, server, i, outfile, results_rps, results_tpr, calls, stdout,
                   funVars, pkgVars>>

\* bench_cmd, lines 83-87: read out.txt, remove it, return its text to core().
BenchCmdRead ==
    /\ pc = "bench_read"
    /\ results' = outfile
    /\ outfile' = Absent
    /\ pc' = "parse_rps"
    /\ UNCHANGED <<error, server, i, results_rps, results_tpr, calls, stdout,
                   funVars, pkgVars>>

\* Variant of ParseRps: a failed extraction stores nothing and goes on.
ParseRpsLenient ==
    /\ pc = "parse_rps"
    /\ LET r == parse_bench_results(results, RPS)
       IN results_rps' = IF r.ok
                         THEN [results_rps EXCEPT ![Name] = Append(@, Div1000(r.val))]
                         ELSE results_rps
    /\ pc' = "parse_tpr"
    /\ UNCHANGED <<error, server, i, outfile, results, results_tpr, calls, stdout,
                   funVars, pkgVars>>

\* core(), line 47.
ParseRps ==
    /\ pc = "parse_rps"
    /\ LET r == parse_bench_results(results, RPS)
       IN IF r.ok
          THEN /\ results_rps' = [results_rps EXCEPT ![Name] = Append(@, Div1000(r.val))]
               /\ pc' = "parse_tpr"
               /\ error' = error
          ELSE /\ results_rps' = results_rps
               /\ pc' = "aborted"
               /\ error' = r.err
    /\ UNCHANGED <<server, i, outfile, results, results_tpr, calls, stdout,
                   funVars, pkgVars>>

\* The loop headers of lines 43-44 after one more trial.
NextServer == IF i + 1 < CORES_LIMIT THEN server ELSE server + 1
NextI      == IF i + 1 < CORES_LIMIT THEN i + 1 ELSE 0

\* core(), line 48, and the step of the two loops.
ParseTpr ==
    /\ pc = "parse_tpr"
    /\ LET r == parse_bench_results(results, TPR)
       IN IF r.ok
          THEN /\ results_tpr' = [results_tpr EXCEPT ![Name] = Append(@, r.val)]
               /\ server' = NextServer
               /\ i' = NextI
               /\ pc' = IF NextServer > Len(SERVERS) THEN "render" ELSE "core_loop"
               /\ error' = error
          ELSE /\ results_tpr' = results_tpr
               /\ UNCHANGED <<server, i>>
               /\ pc' = "aborted"
               /\ error' = r.err
    /\ UNCHANGED <<outfile, results, results_rps, calls, stdout, funVars, pkgVars>>

(***************************************************************************)
(* bench.py: generate_tex.  The markup is a list of items, one per piece   *)
(* of text the function appends to its output.                             *)
(***************************************************************************)
Item(t, v) == [t |-> t, v |-> v]
Point(x, y) == [t |-> "point", x |-> x, y |-> y]

\* Lines 107-121.
TexHeader(axis) ==
    << Item("begin_axis", ""),
       Item("xlabel", axis.xlabel), Item("ylabel", axis.ylabel),
       Item("xmin", axis.xmin), Item("xmax", axis.xmax),
       Item("ymin", axis.ymin), Item("ymax", axis.ymax),
       Item("xtick", axis.xtick), Item("ytick", axis.ytick),
       Item("axis_options", "") >>

\* Variant of ColourOf: the palette wraps around.
ColourOfCyclic(idx) == [ok |-> TRUE, val |-> COLOURS[(idx % Len(COLOURS)) + 1]]

\* Line 124: COLOURS[i] for the 0-based position i of the key.
ColourOf(idx) ==
    IF idx < Len(COLOURS) THEN [ok |-> TRUE, val |-> COLOURS[idx + 1]]
    ELSE [ok |-> FALSE, err |-> "IndexError"]

\* Variant of Points: the points are numbered as range() counts them.
PointsFromZero(series) == [x \in 1..Len(series) |-> Point(x - 1, series[x])]

\* Lines 127-128: one point per sample, range(len) shifted to start at 1.
Points(series) == [x \in 1..Len(series) |-> Point((x - 1) + 1, series[(x - 1) + 1])]

\* Lines 123-130: the blocks of the keys from 0-based position idx on.
RECURSIVE Blocks(_, _, _)
Blocks(res, idx, acc) ==
    IF idx >= Len(res.keys) THEN [ok |-> TRUE, val |-> acc]
    ELSE LET col == ColourOf(idx)
         IN IF ~col.ok THEN col
            ELSE Blocks(res, idx + 1,
                        acc \o << Item("addplot", col.val), Item("coordinates", "") >>
                            \o Points(res.val[res.keys[idx + 1]])
                            \o << Item("end_coordinates", "") >>)

\* Lines 107-135.
generate_tex(axis, res) ==
    LET b == Blocks(res, 0, TexHeader(axis))
    IN IF b.ok
       THEN [ok |-> TRUE,
             val |-> b.val \o << Item("legend", res.keys), Item("end_axis", "") >>]
       ELSE b

\* The two axis configurations of core(), lines 50-68.
Ticks8 == <<"0", "1", "2", "3", "4", "5", "6", "7", "8">>
AxisRps == [xlabel |-> "Threads", ylabel |-> "Requests Per Second (Thousands)",
            xmin |-> "0", xmax |-> "8", ymin |-> "0", ymax |-> "100",
            xtick |-> Ticks8, ytick |-> <<"0", "20", "40", "60", "80", "100">>]
AxisTpr == [xlabel |-> "Threads", ylabel |-> "Time Per Request (ms)",
            xmin |-> "0", xmax |-> "10", ymin |-> "0", ymax |-> "0.5",
            xtick |-> Ticks8, ytick |-> <<"0", "0.1", "0.2", "0.3", "0.4", "0.5">>]

\* A dict as generate_tex sees it: its keys in insertion order and its values.
Mapping(keys, val) == [keys |-> keys, val |-> val]

\* core(), lines 50-70, and main(), lines 26-28.
Render ==
    /\ pc = "render"
    /\ LET result_rps_tex == generate_tex(AxisRps, Mapping(SERVERS, results_rps))
           result_tpr_tex == generate_tex(AxisTpr, Mapping(SERVERS, results_tpr))
       IN IF result_rps_tex.ok /\ result_tpr_tex.ok
          THEN /\ stdout' = Append(stdout, result_rps_tex.val \o << Item("blank", "") >>
                                               \o result_tpr_tex.val)
               /\ pc' = "done"
               /\ error' = error
          ELSE /\ stdout' = stdout
               /\ pc' = "aborted"
               /\ error' = "IndexError"
    /\ UNCHANGED <<server, i, outfile, results, results_rps, results_tpr, calls,
                   funVars, pkgVars>>

(***************************************************************************)
(* Initial values of the variables a specification does not use.           *)
(***************************************************************************)
BenchIdle ==
    /\ server = 0 /\ i = 0 /\ outfile = Absent /\ results = <<>>
    /\ results_rps = <<>> /\ results_tpr = <<>> /\ calls = <<>> /\ stdout = <<>>

FunIdle == field = Idle /\ tex_in = Idle /\ ret = Idle

PkgIdle ==
    /\ sep = Idle /\ tree = {} /\ missing = {} /\ unreadable = {} /\ removable = TRUE
    /\ pkg = [exists |-> FALSE, files |-> {}] /\ output = <<>> /\ tests_output = <<>>
    /\ k = 0 /\ queue = <<>> /\ copied = <<>>

(***************************************************************************)
(* SpecBench: one run of bench.py                                          *)
(***************************************************************************)
InitBench ==
    /\ pc = "core_loop" /\ error = NoError
    /\ server = 1 /\ i = 0
    /\ outfile \in {Absent, StaleReport}
    /\ results = <<>>
    /\ results_rps = [s \in {"Humphrey", "Nginx", "Apache"} |-> <<>>]
    /\ results_tpr = [s \in {"Humphrey", "Nginx", "Apache"} |-> <<>>]
    /\ calls = <<>> /\ stdout = <<>>
    /\ FunIdle /\ PkgIdle

NextBench == BenchCmdSystem \/ BenchCmdRead \/ ParseRps \/ ParseTpr \/ Render

SpecBench == InitBench /\ [][NextBench]_vars

(***************************************************************************)
(* SpecParse: parse_bench_results on every report of at most MaxLines      *)
(* lines built from LineKinds.                                             *)
(***************************************************************************)
MaxLines == 3

TokLists == { <<>>, <<Num(1, 500)>>, <<Num(2, 0), Word("[ms]")>>, <<Word("n/a")>> }
LineKinds == { Line(l, t) : l \in SUBSET Labels, t \in TokLists }
ParseReports == UNION { [1..n -> LineKinds] : n \in 1..MaxLines }

InitParse ==
    /\ pc = "parse_call" /\ error = NoError
    /\ results \in ParseReports
    /\ field \in Labels
    /\ tex_in = Idle /\ ret = Idle
    /\ server = 0 /\ i = 0 /\ outfile = Absent
    /\ results_rps = <<>> /\ results_tpr = <<>> /\ calls = <<>> /\ stdout = <<>>
    /\ PkgIdle

ParseCall ==
    /\ pc = "parse_call"
    /\ ret' = parse_bench_results(results, field)
    /\ pc' = "returned"
    /\ UNCHANGED <<error, benchVars, field, tex_in, pkgVars>>

NextParse == ParseCall

SpecParse == InitParse /\ [][NextParse]_vars

(***************************************************************************)
(* Properties of a run of bench.py (SpecBench)                             *)
(***************************************************************************)
Trials == Len(SERVERS) * CORES_LIMIT

\* The endpoint and the concurrency level of the j-th invocation of a full run.
ServerOfCall(j) == SERVERS[((j - 1) \div CORES_LIMIT) + 1]
LevelOfCall(j)  == ((j - 1) % CORES_LIMIT) + 1

ExpectedCmd(j) ==
    [n |-> 100000, c |-> LevelOfCall(j), redirect |-> "out.txt", keepalive |-> TRUE,
     url |-> [host |-> "localhost", port |-> PORTS[ServerOfCall(j)], path |-> "/"]]

\* The number the first line containing the label carries at offset 24, in millionths.
SampleFrom(rep, fld) ==
    LET tok == rep[FirstLabelLine(rep, fld)].toks[1]
    IN tok.whole * 1000000 + tok.milli * 1000

AllLabelled ==
    \A j \in 1..Len(calls) : HasLabel(calls[j].out, RPS) /\ HasLabel(calls[j].out, TPR)

AllWellFormed ==
    \A j \in 1..Len(calls) :
        WellFormedFor(calls[j].out, RPS) /\ WellFormedFor(calls[j].out, TPR)

Finished == pc \in {"done", "aborted"}

FullRun ==
    /\ pc = "done"
    /\ Len(calls) = Trials
    /\ \A j \in 1..Trials : calls[j].cmd = ExpectedCmd(j)
    /\ \A s \in 1..Len(SERVERS) :
          /\ Len(results_rps[SERVERS[s]]) = CORES_LIMIT
          /\ Len(results_tpr[SERVERS[s]]) = CORES_LIMIT
          /\ \A x \in 1..CORES_LIMIT :
                LET call == calls[(s - 1) * CORES_LIMIT + x]
                IN /\ call.cmd.c = x
                   /\ results_rps[SERVERS[s]][x] * 1000 = SampleFrom(call.out, RPS)
                   /\ results_tpr[SERVERS[s]][x] = SampleFrom(call.out, TPR)

\* C1 as claimed: a finished run all of whose reports contain both labels made
\* every invocation in order and filled every series.
C1_LabelledRunIsFull == (Finished /\ AllLabelled) => FullRun

\* C1, amended: the invocations made so far are always the first ones of the fixed
\* order (Humphrey, Nginx, Apache; levels 1..CORES_LIMIT; REQUESTS requests,
\* keep-alive, the endpoint's port), and a finished run all of whose reports carry,
\* on the first line containing each label, a number at offset 24 made all
\* Len(SERVERS) * CORES_LIMIT of them, with the sample at position x of every series
\* taken from the trial at level x.
C1_WellFormedRunIsFull ==
    /\ Len(calls) <= Trials
    /\ \A j \in 1..Len(calls) : calls[j].cmd = ExpectedCmd(j)
    /\ (Finished /\ AllWellFormed) => FullRun
    /\ pc \in {"render", "done"} => Len(calls) = Trials /\ AllWellFormed

C1_Witness == pc = "done" /\ Len(calls) = Trials /\ AllWellFormed /\ stdout # <<>>

\* What C3 says of the j-th trial when its report lacks a label, but for the kind
\* of the error.
AbortsAtTrial(j) ==
    LET rep  == calls[j].out
        name == ServerOfCall(j)
    IN /\ j = Len(calls)
       /\ stdout = <<>>
       /\ pc \in {"bench_read", "parse_rps", "parse_tpr", "aborted"}
       /\ ~HasLabel(rep, RPS) => Len(results_rps[name]) = LevelOfCall(j) - 1
       /\ ~HasLabel(rep, TPR) => Len(results_tpr[name]) = LevelOfCall(j) - 1

LacksLabel(rep) == ~HasLabel(rep, RPS) \/ ~HasLabel(rep, TPR)

\* C3 as claimed: a trial whose report lacks a requested label ends the run there
\* with the Metric-not-found error: no later trial, no sample of the missing
\* metric, nothing printed.
C3_MissingLabelAbortsNotFound ==
    \A j \in 1..Len(calls) :
        LacksLabel(calls[j].out) =>
            /\ AbortsAtTrial(j)
            /\ pc = "aborted" => error = "Exception"

\* C3, amended: such a trial ends the run there, with no later trial, no sample of
\* the missing metric and nothing printed; the error is Metric-not-found unless the
\* report has a "Requests per second" line without a number at offset 24, whose
\* extraction fails first with the parser's own IndexError or ValueError.
C3_MissingLabelAborts ==
    \A j \in 1..Len(calls) :
        LacksLabel(calls[j].out) =>
            /\ AbortsAtTrial(j)
            /\ pc = "aborted" =>
                  IF HasLabel(calls[j].out, RPS) /\ ~WellFormedFor(calls[j].out, RPS)
                  THEN error \in {"IndexError", "ValueError"}
                  ELSE error = "Exception"

C3_Witness ==
    /\ pc = "aborted" /\ error = "Exception" /\ Len(calls) > CORES_LIMIT
    /\ HasLabel(calls[Len(calls)].out, RPS) /\ ~HasLabel(calls[Len(calls)].out, TPR)
    /\ Len(results_rps[ServerOfCall(Len(calls))])
         = Len(results_tpr[ServerOfCall(Len(calls))]) + 1

\* C5: once a trial has run, out.txt exists only between os.system and the read
\* in bench_cmd: not while the report is parsed, not when the next trial starts,
\* not when the run has ended or aborted.
C5_ScratchFileRemoved ==
    (calls # <<>> /\ pc # "bench_read") => outfile = Absent

C5_Witness ==
    /\ pc = "aborted" /\ error = "Exception" /\ calls # <<>> /\ outfile = Absent
    /\ LacksLabel(calls[Len(calls)].out)

(***************************************************************************)
(* Properties of parse_bench_results (SpecParse)                           *)
(***************************************************************************)
\* C2: for a report whose first line containing the label carries a number at
\* offset 24, the function returns that number, whatever the other lines are.
C2_FirstLabelLineDecides ==
    (pc = "returned" /\ WellFormedFor(results, field)) =>
        ret.ok /\ ret.val = SampleFrom(results, field)

C2_Witness ==
    /\ pc = "returned" /\ ret.ok
    /\ WellFormedFor(results, field)
    /\ FirstLabelLine(results, field) > 1
    /\ \E n \in (FirstLabelLine(results, field) + 1)..Len(results) :
          /\ field \in results[n].has
          /\ results[n].toks # results[FirstLabelLine(results, field)].toks

(***************************************************************************)
(* SpecTex: generate_tex on every mapping of at most MaxKeys keys (in any  *)
(* order) to series of at most MaxLen samples.  generate_tex never looks   *)
(* into a sample; each sample is tagged with its key and position.         *)
(***************************************************************************)
MaxKeys == 4
MaxLen == 2

KeyNames == <<"Humphrey", "Nginx", "Apache", "Caddy", "Lighttpd", "IIS">>
KeyPool == { KeyNames[j] : j \in 1..MaxKeys }
KeyIndex(key) == CHOOSE j \in 1..Len(KeyNames) : KeyNames[j] = key

KeyOrders ==
    UNION { { ks \in [1..n -> KeyPool] : \A a, b \in 1..n : a # b => ks[a] # ks[b] }
            : n \in 0..MaxKeys }

SeriesOf(key, len) == [x \in 1..len |-> 100 * KeyIndex(key) + x]

\* The mapping with the keys ks in this order, the series of a key as long as lens says.
TexMapping(ks, lens) ==
    Mapping(ks, [key \in { ks[j] : j \in 1..Len(ks) } |-> SeriesOf(key, lens[key])])

InitTex ==
    /\ pc = "tex_call" /\ error = NoError
    /\ \E a \in {AxisRps, AxisTpr}, ks \in KeyOrders, lens \in [KeyPool -> 0..MaxLen] :
          tex_in = [axis |-> a, results |-> TexMapping(ks, lens)]
    /\ field = Idle /\ ret = Idle
    /\ BenchIdle /\ PkgIdle

TexCall ==
    /\ pc = "tex_call"
    /\ ret' = generate_tex(tex_in.axis, tex_in.results)
    /\ pc' = "returned"
    /\ UNCHANGED <<error, benchVars, field, tex_in, pkgVars>>

NextTex == TexCall

SpecTex == InitTex /\ [][NextTex]_vars

(***************************************************************************)
(* Properties of generate_tex (SpecTex)                                    *)
(***************************************************************************)
Positions(out, t) == { p \in 1..Len(out) : out[p].t = t }

\* The n-th smallest element of a set of positions.
Nth(S, n) == CHOOSE p \in S : Cardinality({ q \in S : q <= p }) = n

\* The markup holds one coordinate block per key, in key order; the block of the
\* n-th key holds the key's samples as points 1..length; every point lies in a
\* block; the legend follows the blocks and lists the keys in their order.
BlocksMatch(out, res) ==
    LET starts == Positions(out, "addplot")
        n      == Len(res.keys)
    IN /\ Cardinality(starts) = n
       /\ Cardinality(Positions(out, "coordinates")) = n
       /\ Cardinality(Positions(out, "end_coordinates")) = n
       /\ \A b \in 1..n :
             LET p      == Nth(starts, b)
                 series == res.val[res.keys[b]]
             IN /\ out[p + 1].t = "coordinates"
                /\ \A x \in 1..Len(series) : out[p + 1 + x] = Point(x, series[x])
                /\ out[p + 2 + Len(series)].t = "end_coordinates"
       /\ Cardinality(Positions(out, "point"))
            = Cardinality({ <<b, x>> \in (1..n) \X (1..Len(out)) :
                              x <= Len(res.val[res.keys[b]]) })
       /\ \E l \in 1..Len(out) :
             /\ Positions(out, "legend") = {l}
             /\ out[l].v = res.keys
             /\ \A p \in Positions(out, "end_coordinates") : p < l

\* C4 as claimed: for every series mapping, generate_tex emits one block per key.
C4_EveryMappingRenders ==
    pc = "returned" => ret.ok /\ BlocksMatch(ret.val, tex_in.results)

\* C4, amended: for every series mapping of at most len(COLOURS) = 3 keys,
\* generate_tex emits exactly one coordinate block per key in key order, the block
\* of a key holding its samples as points numbered 1..length, and a legend listing
\* the keys in the same order.
C4_BlocksPerKey ==
    (pc = "returned" /\ Len(tex_in.results.keys) <= Len(COLOURS)) =>
        ret.ok /\ BlocksMatch(ret.val, tex_in.results)

C4_Witness ==
    /\ pc = "returned" /\ ret.ok
    /\ Len(tex_in.results.keys) = 3
    /\ tex_in.results.keys[1] = "Apache"
    /\ Len(tex_in.results.val["Apache"]) = 2
    /\ Len(tex_in.results.val[tex_in.results.keys[2]]) = 0
    /\ Cardinality(Positions(ret.val, "point")) = 3

\* C9: the n-th block is drawn in the n-th colour of the palette, and a mapping of
\* more keys than colours makes generate_tex fail with the lookup's IndexError
\* and return no markup.
C9_PaletteByOrder ==
    pc = "returned" =>
        IF Len(tex_in.results.keys) > Len(COLOURS)
        THEN ~ret.ok /\ ret.err = "IndexError"
        ELSE /\ ret.ok
             /\ \A b \in 1..Len(tex_in.results.keys) :
                   ret.val[Nth(Positions(ret.val, "addplot"), b)].v
                     = <<"green", "orange", "red">>[b]

C9_Witness ==
    /\ pc = "returned" /\ ~ret.ok
    /\ Len(tex_in.results.keys) = 4

(***************************************************************************)
(* pkg_tex_src.py.  Paths are sequences of characters, so that replace(),  *)
(* split(), endswith() and "in" are computed character by character.       *)
(***************************************************************************)
Slash == "/"
Backslash == "\\"

EXTENSIONS == << <<".", "r", "s">>, <<".", "c", "o", "n", "f">> >>
SEPARATE_TESTS == TRUE

\* The items of DIRECTORIES in insertion order.
DIRECTORIES ==
    << [dir |-> <<"h", "u", "m", "p", "h", "r", "e", "y">>, title |-> "Humphrey Core"],
       [dir |-> <<"h", "u", "m", "p", "h", "r", "e", "y", "-", "s", "e", "r", "v", "e", "r">>,
        title |-> "Humphrey Server"],
       [dir |-> <<"h", "u", "m", "p", "h", "r", "e", "y", "-", "w", "s">>, title |-> "Humphrey WebSocket"],
       [dir |-> <<"p", "l", "u", "g", "i", "n", "s">>, title |-> "Plugins"],
       [dir |-> <<"e", "x", "a", "m", "p", "l", "e", "s">>, title |-> "Example Code"] >>

\* str.endswith
EndsWith(str, suffix) ==
    /\ Len(suffix) <= Len(str)
    /\ SubSeq(str, Len(str) - Len(suffix) + 1, Len(str)) = suffix

\* sub in str
Contains(str, sub) ==
    \E p \in 1..(Len(str) - Len(sub) + 1) : SubSeq(str, p, p + Len(sub) - 1) = sub

\* str.replace(c, by) for a single character c
RECURSIVE Replace(_, _, _)
Replace(str, c, by) ==
    IF str = <<>> THEN <<>>
    ELSE (IF Head(str) = c THEN by ELSE <<Head(str)>>) \o Replace(Tail(str), c, by)

\* str.split(c) for a single character c
RECURSIVE Split(_, _)
Split(str, c) ==
    IF \A p \in 1..Len(str) : str[p] # c THEN <<str>>
    ELSE LET p == CHOOSE q \in 1..Len(str) :
                     str[q] = c /\ \A r \in 1..(q - 1) : str[r] # c
         IN <<SubSeq(str, 1, p - 1)>> \o Split(SubSeq(str, p + 1, Len(str)), c)

\* os.path.join(a, b) for a relative b and an a that does not end in a separator
PathJoin(a, b) == a \o <<sep>> \o b

\* The root os.walk reports for the directory reached from f"./{k}" through dirs.
RECURSIVE WalkRoot(_, _)
WalkRoot(top, dirs) ==
    IF dirs = <<>> THEN <<".", Slash>> \o top
    ELSE PathJoin(WalkRoot(top, SubSeq(dirs, 1, Len(dirs) - 1)), dirs[Len(dirs)])

\* Line 32.
Matches(name) == \E e \in 1..Len(EXTENSIONS) : EndsWith(name, EXTENSIONS[e])

\* Line 34.
OriginalPath(f) ==
    LET joined == PathJoin(WalkRoot(f.top, f.dirs), f.name)
    IN SubSeq(joined, 3, Len(joined))

\* Line 35.
EscapedPath(original_path) ==
    Replace(Replace(original_path, Backslash, <<Slash>>), "_", <<Backslash, "_">>)

\* Line 36.
ModifiedPath(original_path) ==
    Replace(Replace(original_path, Backslash, <<"-">>), "_", <<"-">>)

\* A name with a directory separator of the platform in it names a file in a
\* subdirectory.
HasSeparator(path) ==
    \E p \in 1..Len(path) : path[p] = Slash \/ (sep = Backslash /\ path[p] = Backslash)

\* Variant of InTests: only a directory called tests counts.
InTestsDirOnly(f) == \E d \in 1..Len(f.dirs) : f.dirs[d] = <<"t", "e", "s", "t", "s">>

\* Line 40.
InTests(f) == Contains(OriginalPath(f), <<"t", "e", "s", "t", "s">>) /\ SEPARATE_TESTS

\* Line 10.
Entry(escaped_path, modified_path) ==
    [t |-> "input", title |-> escaped_path, path |-> <<"p", "k", "g", "/">> \o modified_path]

Subsection(v) == [t |-> "subsection", title |-> v]

\* pkg/ with the file called name (re)written with content.
WriteFile(dir, name, content) ==
    [dir EXCEPT !.files = { e \in @ : e[1] # name } \cup { <<name, content>> }]

SrcTex == <<"s", "r", "c", ".", "t", "e", "x">>
TestsTex == <<"t", "e", "s", "t", "s", ".", "t", "e", "x">>
NoPkg == [exists |-> FALSE, files |-> {}]
Dir(files) == [exists |-> TRUE, files |-> files]
Stream == [kind |-> "stream"]
StalePkg == Dir({ <<<<"o", "l", "d", ".", "r", "s">>, [kind |-> "stale"]>> })

(***************************************************************************)
(* The source tree: at most MaxFiles of the candidate files below.         *)
(***************************************************************************)
MaxFiles == 3

File(top, dirs, name) == [top |-> top, dirs |-> dirs, name |-> name]

Candidates ==
    { File(<<"h", "u", "m", "p", "h", "r", "e", "y">>, << <<"s", "r", "c">> >>, <<"l", "i", "b", ".", "r", "s">>),
      File(<<"h", "u", "m", "p", "h", "r", "e", "y">>, << <<"s", "r", "c">>, <<"t", "e", "s", "t", "s">> >>, <<"f", "o", "o", ".", "r", "s">>),
      File(<<"h", "u", "m", "p", "h", "r", "e", "y">>, << <<"s", "r", "c">> >>, <<"a", "_", "b", ".", "r", "s">>),
      File(<<"h", "u", "m", "p", "h", "r", "e", "y">>, << <<"s", "r", "c">> >>, <<"a", "-", "b", ".", "r", "s">>),
      File(<<"h", "u", "m", "p", "h", "r", "e", "y">>, << >>, <<"t", "o", "p", ".", "r", "s">>),
      File(<<"h", "u", "m", "p", "h", "r", "e", "y", "-", "s", "e", "r", "v", "e", "r">>, << <<"s", "r", "c">> >>, <<"x", ".", "c", "o", "n", "f">>),
      File(<<"h", "u", "m", "p", "h", "r", "e", "y">>, << <<"s", "e", "r", "v", "e", "r">>, <<"s", "r", "c">> >>, <<"x", ".", "c", "o", "n", "f">>),
      File(<<"p", "l", "u", "g", "i", "n", "s">>, << <<"p", "h", "p">> >>, <<"c", "o", "n", "t", "e", "s", "t", "s", ".", "r", "s">>),
      File(<<"e", "x", "a", "m", "p", "l", "e", "s">>, << <<"b", "a", "s", "i", "c">> >>, <<"n", "o", "t", "e", "s", ".", "m", "d">>) }

DirNames == { DIRECTORIES[d].dir : d \in 1..Len(DIRECTORIES) }

IsPrefix(a, b) == Len(a) <= Len(b) /\ SubSeq(b, 1, Len(a)) = a

\* The orders in which os.walk (top-down) can yield the files F of one directory
\* tree: a directory's own files come before those of its subdirectories, and
\* the files below any directory come one after the other.
WalkOrders(F) ==
    LET n == Cardinality(F)
    IN { q \in [1..n -> F] :
           /\ \A a, b \in 1..n : a # b => q[a] # q[b]
           /\ \A a, b \in 1..n :
                 (IsPrefix(q[a].dirs, q[b].dirs) /\ q[a].dirs # q[b].dirs) => a < b
           /\ \A a, c \in 1..n : \A b \in a..c :
                 \A l \in 0..Len(q[a].dirs) :
                    (IsPrefix(SubSeq(q[a].dirs, 1, l), q[c].dirs))
                        => IsPrefix(SubSeq(q[a].dirs, 1, l), q[b].dirs) }

(***************************************************************************)
(* SpecPkg: one run of pkg_tex_src.py                                      *)
(***************************************************************************)
InitPkg ==
    /\ pc = "pkg_setup" /\ error = NoError
    /\ sep \in {Slash, Backslash}
    /\ tree \in { T \in SUBSET Candidates : Cardinality(T) <= MaxFiles }
    /\ missing \in { D \in SUBSET DirNames :
                       Cardinality(D) <= 1 /\ \A f \in tree : f.top \notin D }
    /\ unreadable \in { U \in SUBSET tree : Cardinality(U) <= 1 }
    /\ pkg \in {NoPkg, StalePkg}
    /\ removable \in { r \in BOOLEAN : ~pkg.exists => r }
    /\ output = <<>> /\ tests_output = <<>>
    /\ k = 0 /\ queue = <<>> /\ copied = <<>>
    /\ BenchIdle /\ FunIdle

\* Lines 20-24: rmtree ignores its errors, mkdir does not; both streams are opened.
Setup ==
    /\ pc = "pkg_setup"
    /\ LET after_rmtree == IF removable THEN NoPkg ELSE pkg
       IN IF after_rmtree.exists
          THEN /\ pc' = "aborted"
               /\ error' = "FileExistsError"
               /\ UNCHANGED <<pkg, k>>
          ELSE /\ pkg' = IF SEPARATE_TESTS
                         THEN Dir({ <<SrcTex, Stream>>, <<TestsTex, Stream>> })
                         ELSE Dir({ <<SrcTex, Stream>> })
               /\ k' = 1
               /\ pc' = "pkg_dir"
               /\ error' = error
    /\ UNCHANGED <<benchVars, funVars, sep, tree, missing, unreadable, removable,
                   output, tests_output, queue, copied>>

\* Line 30: what os.walk(f"./{k}") yields; an error of the listing is dropped
\* (os.walk is called without onerror) and nothing is yielded.
Listing(dir) ==
    IF dir \in missing THEN { <<>> }
    ELSE WalkOrders({ f \in tree : f.top = dir })

\* Lines 26-30: the section headers of directory k, and the start of its walk.
Header ==
    /\ pc = "pkg_dir"
    /\ k <= Len(DIRECTORIES)
    /\ output' = Append(output, Subsection(DIRECTORIES[k].title))
    /\ tests_output' = IF SEPARATE_TESTS
                       THEN Append(tests_output, Subsection(DIRECTORIES[k].title))
                       ELSE tests_output
    /\ queue' \in Listing(DIRECTORIES[k].dir)
    /\ pc' = "pkg_walk"
    /\ UNCHANGED <<error, benchVars, funVars, sep, tree, missing, unreadable, removable,
                   pkg, k, copied>>

\* Variant of CopyError: a copy that fails is skipped over.
CopyErrorSwallowed(f, modified_path) == NoError

\* Line 38: the exception shutil.copyfile raises, if any.  pkg/ holds no
\* subdirectory, so a name with a separator in it cannot be created.
CopyError(f, modified_path) ==
    IF f \in unreadable THEN "PermissionError"
    ELSE IF HasSeparator(modified_path) THEN "FileNotFoundError"
    ELSE NoError

\* Lines 31-43 for the next file of the walk.
VisitFile ==
    /\ pc = "pkg_walk"
    /\ queue # <<>>
    /\ LET f    == Head(queue)
           root == WalkRoot(f.top, f.dirs)
           original_path == OriginalPath(f)
           escaped_path  == EscapedPath(original_path)
           modified_path == ModifiedPath(original_path)
       IN IF ~Matches(f.name)
          THEN /\ queue' = Tail(queue)
               /\ UNCHANGED <<pc, error, pkg, output, tests_output, copied>>
          ELSE IF Len(Split(root, sep)) < 2
          THEN /\ pc' = "aborted"
               /\ error' = "IndexError"
               /\ UNCHANGED <<pkg, output, tests_output, copied, queue>>
          ELSE IF CopyError(f, modified_path) # NoError
          THEN /\ pc' = "aborted"
               /\ error' = CopyError(f, modified_path)
               /\ UNCHANGED <<pkg, output, tests_output, copied, queue>>
          ELSE /\ pkg' = WriteFile(pkg, modified_path, f)
               /\ copied' = Append(copied, [file |-> f, dst |-> modified_path])
               /\ IF InTests(f)
                  THEN /\ tests_output' = Append(tests_output,
                                                 Entry(escaped_path, modified_path))
                       /\ output' = output
                  ELSE /\ output' = Append(output, Entry(escaped_path, modified_path))
                       /\ tests_output' = tests_output
               /\ queue' = Tail(queue)
               /\ UNCHANGED <<pc, error>>
    /\ UNCHANGED <<benchVars, funVars, sep, tree, missing, unreadable, removable, k>>

\* Line 26: the walk of directory k is over; on to the next directory, or out of
\* the loop.
NextDirectory ==
    /\ pc = "pkg_walk"
    /\ queue = <<>>
    /\ k' = k + 1
    /\ pc' = IF k + 1 > Len(DIRECTORIES) THEN "pkg_close" ELSE "pkg_dir"
    /\ UNCHANGED <<error, benchVars, funVars, sep, tree, missing, unreadable, removable,
                   pkg, output, tests_output, queue, copied>>

\* Line 45.
Close ==
    /\ pc = "pkg_close"
    /\ pc' = "done"
    /\ UNCHANGED <<error, benchVars, funVars, pkgVars>>

NextPkg == Setup \/ Header \/ VisitFile \/ NextDirectory \/ Close

SpecPkg == InitPkg /\ [][NextPkg]_vars

(***************************************************************************)
(* Properties of a run of pkg_tex_src.py (SpecPkg)                         *)
(***************************************************************************)
RECURSIVE JoinHyphen(_)
JoinHyphen(parts) ==
    IF Len(parts) = 1 THEN parts[1]
    ELSE parts[1] \o <<"-">> \o JoinHyphen(Tail(parts))

\* The file name the packager is to give a source file: its relative path with
\* every separator and every underscore turned into a hyphen.
HyphenName(f) == Replace(JoinHyphen(<<f.top>> \o f.dirs \o <<f.name>>), "_", <<"-">>)

TitleOf(top) ==
    DIRECTORIES[CHOOSE d \in 1..Len(DIRECTORIES) : DIRECTORIES[d].dir = top].title

Wanted == { f \in tree : Matches(f.name) /\ f.top \notin missing }

CopiedFiles == { copied[n].file : n \in 1..Len(copied) }

Entries(st) == { p \in 1..Len(st) : st[p].t = "input" }

\* C6 as claimed: when the run has ended and the file system refused nothing
\* (pkg/ could be removed, every file is readable), every file with a recognized
\* extension below a configured directory has been copied straight into pkg/
\* under its hyphenated name.
C6_EveryMatchCopiedFlat ==
    (pc \in {"done", "aborted"} /\ unreadable = {} /\ removable) =>
        \A f \in Wanted :
            \E n \in 1..Len(copied) :
                /\ copied[n].file = f
                /\ copied[n].dst = HyphenName(f)
                /\ \A p \in 1..Len(copied[n].dst) :
                      copied[n].dst[p] \notin {Slash, Backslash}

\* C7: every copied file has exactly one entry, in one stream: tests.tex if
\* "tests" occurs in its relative path, src.tex otherwise; the entry stands below
\* the header of the file's top-level directory, before the next header.
C7_OneEntryPerCopy ==
    /\ Cardinality(Entries(output)) + Cardinality(Entries(tests_output)) = Len(copied)
    /\ \A n \in 1..Len(copied) :
          LET f  == copied[n].file
              e  == [t |-> "input", title |-> EscapedPath(OriginalPath(f)),
                     path |-> <<"p", "k", "g", "/">> \o copied[n].dst]
              st == IF Contains(OriginalPath(f), <<"t", "e", "s", "t", "s">>) THEN tests_output ELSE output
              ot == IF Contains(OriginalPath(f), <<"t", "e", "s", "t", "s">>) THEN output ELSE tests_output
          IN /\ Cardinality({ p \in 1..Len(st) : st[p] = e }) = 1
             /\ \A p \in 1..Len(ot) : ot[p] # e
             /\ \A p \in 1..Len(st) :
                   st[p] = e =>
                      \E h \in 1..(p - 1) :
                          /\ st[h] = [t |-> "subsection", title |-> TitleOf(f.top)]
                          /\ \A q \in (h + 1)..p : st[q].t = "input"

C7_Witness ==
    /\ pc = "done"
    /\ Entries(output) # {} /\ Entries(tests_output) # {}
    /\ \E n \in 1..Len(copied) : copied[n].file.name = <<"c", "o", "n", "t", "e", "s", "t", "s", ".", "r", "s">>
    /\ Len(copied) >= 2

\* C8 as claimed: with a configured directory missing, the packager never reaches
\* the end of the script.
C8_MissingDirectoryAborts == missing # {} => pc # "done"

HeaderAlone(st, title) ==
    \E h \in 1..Len(st) :
        /\ st[h] = [t |-> "subsection", title |-> title]
        /\ h < Len(st) => st[h + 1].t = "subsection"

\* C8, amended: an error of mkdir or copyfile ends the script (it never reaches
\* its end with pkg/ left in place or a file uncopied), but a configured directory
\* that cannot be listed raises nothing: the script never aborts while at such a
\* directory, writes its header to both streams with no entry below it, and goes on.
C8_OnlyCopyAndMkdirAbort ==
    /\ (error # NoError) <=> (pc = "aborted")
    /\ pc = "done" =>
          /\ removable
          /\ \A f \in Wanted : f \notin unreadable /\ f \in CopiedFiles
    /\ (pc = "aborted" /\ k >= 1) => DIRECTORIES[k].dir \notin missing
    /\ \A d \in 1..Len(DIRECTORIES) :
          (DIRECTORIES[d].dir \in missing /\ (k > d \/ (k = d /\ pc = "pkg_walk"))) =>
              /\ HeaderAlone(output, DIRECTORIES[d].title)
              /\ HeaderAlone(tests_output, DIRECTORIES[d].title)

C8_Witness ==
    /\ pc = "done" /\ missing # {} /\ Len(copied) >= 2
    /\ DIRECTORIES[1].dir \notin missing

\* C10 as claimed: no two files are copied to the same name in pkg/; at the end
\* pkg/ holds as many copies as there are entries, and the file an entry names
\* holds the source the entry was written for.
C10_NoOverwrite ==
    /\ \A a, b \in 1..Len(copied) : a # b => copied[a].dst # copied[b].dst
    /\ pc = "done" =>
          /\ Cardinality({ e \in pkg.files : e[2] # Stream })
               = Cardinality(Entries(output)) + Cardinality(Entries(tests_output))
          /\ \A n \in 1..Len(copied) : <<copied[n].dst, copied[n].file>> \in pkg.files

====
